---- MODULE Spec2Model ----
(***************************************************************************)
(* Retrieval-and-grounded-query subsystem of the paper RAG application:    *)
(* src/Code/rag.py (RAGSystem, DocumentProcessor, PromptManager) and the   *)
(* Streamlit session handlers of src/Code/app.py that drive it.            *)
(*                                                                         *)
(* One action per operation: the three session handlers that change the    *)
(* index (search button, rebuild button, add-paper button), the file       *)
(* upload, RAGSystem.query and RAGSystem.clear_memory.  The external       *)
(* capabilities (paper search, embedding, completion) are inputs chosen    *)
(* with \E from small sets.                                                *)
(***************************************************************************)
EXTENDS Integers, Sequences, FiniteSets, TLC

VARIABLES
    current_data_source, \* st.session_state.current_data_source / RAGSystem.data_source
    papers,              \* st.session_state.papers
    index,               \* RAGSystem.index: NoIndex or the docstore's nodes, insertion order
    query_engine,        \* RAGSystem.query_engine: "None", "live" (built on index) or "stale"
    chains,              \* RAGSystem.chains: the names that have an LLMChain
    memory,              \* RAGSystem.memory.chat_memory.messages
    call                 \* the query() or clear_memory() call just made, or the
                         \* session handler just run

vars == <<current_data_source, papers, index, query_engine, chains, memory, call>>

----------------------------------------------------------------------------
(* Bounds of the model *)

\* question/answer turns kept in memory before no further turn is recorded
MaxTurns == 2

\* nodes in the index before no further paper is inserted
MaxNodes == 6

----------------------------------------------------------------------------
(* Program constants *)

\* similarity_top_k of the VectorIndexRetriever
SimilarityTopK == 5

\* DocumentProcessor(chunk_size=1000, chunk_overlap=200), in characters
ChunkSize == 1000
ChunkOverlap == 200

\* characters of a node's text shown in a source of the query result
ExcerptChars == 200

NoSource == "None"
ARXIV == "arxiv"
PWC == "papers_with_code"
DataSource == {ARXIV, PWC}

\* RAGSystem.index before any build; docs are index.docstore.docs.values()
NoIndex == [exists |-> FALSE, docs |-> <<>>]
Index(nodes) == [exists |-> TRUE, docs |-> nodes]

\* a metadata key the document does not carry
NoKey == "<absent>"
NoChunkId == 0 - 1

\* values of an optional enrichment mapping of PaperData: None, an empty
\* mapping {} (falsy), a mapping with content, a mapping whose rendered text
\* exceeds the sentence splitter's chunk size
Unset == "None"
Empty == "Empty"
Full == "Full"
Long == "Long"

Truthy(v) == v \in {Full, Long}

\* a paper record: summary is the number of characters of its abstract; no
\* authors, publication date or pdf link; a repository link when there is
\* repository information
PaperData(t, n, gh, ci, di, me) ==
    [title |-> t, authors |-> <<>>, summary |-> n, pdf_url |-> Unset,
     published |-> Unset, github_url |-> IF gh = Unset THEN Unset ELSE "url",
     github_info |-> gh, code_info |-> ci, dataset_info |-> di, metrics |-> me]

\* records add_paper_from_arxiv_link can return: enriched by ArxivAPI, so
\* only github_info is ever set
ArxivRecords ==
    { PaperData("A", 1500, Full, Unset, Unset, Unset),
      PaperData("C", 165, Long, Unset, Unset, Unset) }

\* result lists of the external paper search, per data source
Found(ds) ==
    IF ds = ARXIV
    THEN { <<>>,
           << PaperData("A", 1500, Full, Unset, Unset, Unset) >>,
           << PaperData("A", 1500, Full, Unset, Unset, Unset),
              PaperData("B", 100, Unset, Unset, Unset, Unset) >>,
           << PaperData("C", 165, Long, Unset, Unset, Unset),
              PaperData("B", 100, Unset, Unset, Unset, Unset) >> }
    ELSE { <<>>,
           << PaperData("A", 100, Unset, Full, Full, Full),
              PaperData("B", 100, Unset, Empty, Full, Empty) >> }

\* contents of the JSON files that are uploaded
LoadedFiles ==
    { << PaperData("A", 1500, Full, Unset, Unset, Unset),
         PaperData("B", 100, Unset, Empty, Full, Empty) >>,
      << PaperData("C", 165, Unset, Full, Unset, Full) >> }

\* the record fetched when indexing the added paper raises
FailedAdds ==
    { PaperData("A", 1500, Full, Unset, Unset, Unset) }

\* the file that is uploaded when the rebuild raises
FailedUploads ==
    { << PaperData("C", 165, Unset, Full, Unset, Full) >> }

----------------------------------------------------------------------------
(* DocumentProcessor *)

RECURSIVE Concat(_)
Concat(ss) == IF ss = <<>> THEN <<>> ELSE Head(ss) \o Concat(Tail(ss))

\* a text: what it renders, its place among the pieces of that rendering,
\* whether it exceeds the sentence splitter's chunk size, its characters
Text(kind, title, part, size, chars) ==
    [kind |-> kind, of |-> title, part |-> part, size |-> size, chars |-> chars]

Document(text, source, title, paper_title, chunk_id) ==
    [text |-> text,
     metadata |-> [source |-> source, title |-> title,
                   paper_title |-> paper_title, chunk_id |-> chunk_id]]

SizeOf(v) == IF v = Long THEN "long" ELSE "short"

\* characters of json.dumps(v, indent=2) for a mapping with content
JsonChars(v) == IF v = Long THEN 6000 ELSE 193

\* characters of the text process_code_info renders for a mapping: the
\* github labels and values, or a one-line label and the mapping's JSON
InfoChars(kind, v) ==
    CASE kind = "github" -> IF v = Long THEN 6000 ELSE 150
      [] kind = "code_info" -> 8 + JsonChars(v)
      [] kind = "dataset_info" -> 7 + JsonChars(v)
      [] OTHER -> 6 + JsonChars(v)

\* one unsplit document for an enrichment mapping that is truthy
InfoDocument(paper, v, kind, source) ==
    IF Truthy(v)
    THEN << Document(Text(kind, paper.title, 0, SizeOf(v), InfoChars(kind, v)),
                     source, NoKey, paper.title, NoChunkId) >>
    ELSE <<>>

process_code_info(paper) ==
    InfoDocument(paper, paper.github_info, "github", "github")
    \o InfoDocument(paper, paper.code_info, "code_info", "PWC code info")
    \o InfoDocument(paper, paper.dataset_info, "dataset_info", "PWC dataset")
    \o InfoDocument(paper, paper.metrics, "metrics", "PWC metrics")

TitleChars(t) == IF t = "" THEN 0 ELSE 1

\* characters of ', '.join(paper.authors), the names being one letter each
JoinChars(authors) ==
    IF authors = <<>> THEN 0 ELSE Len(authors) + 2 * (Len(authors) - 1)

\* characters of format_paper_content(paper): 31 of labels, the title, the
\* authors, the date in ISO format or a 2-character default, the abstract,
\* the pdf link or a 1-character default
format_paper_content(paper) ==
    31 + TitleChars(paper.title) + JoinChars(paper.authors)
       + (IF paper.published = Unset THEN 2 ELSE 25)
       + paper.summary
       + (IF paper.pdf_url = Unset THEN 1 ELSE 33)

\* mutant: the splitter keeps the empty piece left after the last cut
RECURSIVE split_text_KeepEmpty(_)
split_text_KeepEmpty(chars) ==
    IF chars <= ChunkSize THEN << chars, 0 >>
    ELSE << ChunkSize >> \o split_text_KeepEmpty(chars - (ChunkSize - ChunkOverlap))

\* RecursiveCharacterTextSplitter.split_text on a text of the given length:
\* the characters of each piece; every piece but the last is full, a piece
\* starts ChunkOverlap before the end of the one before, nothing is left of
\* an empty text
RECURSIVE split_text(_)
split_text(chars) ==
    IF chars = 0 THEN <<>>
    ELSE IF chars <= ChunkSize THEN << chars >>
    ELSE << ChunkSize >> \o split_text(chars - (ChunkSize - ChunkOverlap))

\* if paper.github_info or paper.code_info
HasCodeDocs(paper) == Truthy(paper.github_info) \/ Truthy(paper.code_info)

\* the splitter's pieces of format_paper_content(paper), each a "paper" document
PaperDocuments(paper) ==
    LET chunks == split_text(format_paper_content(paper))
    IN  [i \in 1..Len(chunks) |->
            Document(Text("paper", paper.title, i - 1, "short", chunks[i]), "paper",
                     paper.title, NoKey, i - 1)]

ProcessPaper(paper) ==
    PaperDocuments(paper)
    \o (IF HasCodeDocs(paper) THEN process_code_info(paper) ELSE <<>>)

process_papers(ps) == Concat([i \in 1..Len(ps) |-> ProcessPaper(ps[i])])

----------------------------------------------------------------------------
(* Index: VectorStoreIndex *)

\* SentenceSplitter(chunk_size=1000): a document within the chunk size is one
\* node, a longer one is cut into consecutive nodes that keep its metadata
SentenceSplitter(doc) ==
    IF doc.text.size = "long"
    THEN << [doc EXCEPT !.text.size = "short",
                        !.text.chars = doc.text.chars \div 2],
            [doc EXCEPT !.text.size = "short",
                        !.text.part = doc.text.part + 1,
                        !.text.chars = doc.text.chars - doc.text.chars \div 2] >>
    ELSE << doc >>

\* VectorStoreIndex.from_documents(documents, transformations=[SentenceSplitter])
from_documents(documents) ==
    Index(Concat([i \in 1..Len(documents) |-> SentenceSplitter(documents[i])]))

\* mutant: the inserted documents replace the nodes of the index
insert_nodes_Replace(idx, documents) == Index(documents)

\* index.insert_nodes(documents): the documents are stored as they are
insert_nodes(idx, documents) == Index(idx.docs \o documents)

Questions == {"q1", "q2"}

KindCode(k) ==
    CASE k = "paper" -> 0 [] k = "github" -> 1 [] k = "code_info" -> 2
      [] k = "dataset_info" -> 3 [] OTHER -> 4
TitleCode(t) == CASE t = "A" -> 1 [] t = "B" -> 2 [] t = "C" -> 3 [] OTHER -> 0
QCode(q) == IF q = "q1" THEN 1 ELSE 2

\* similarity of a node's embedding to the question's: a fixed function of
\* the two texts
Score(question, node) ==
    (QCode(question) * (TitleCode(node.text.of) + 2 * KindCode(node.text.kind))
     + node.text.part) % 4

\* a node goes before the nodes it is strictly more similar than, and after
\* the earlier nodes it is as similar as
RECURSIVE Insert(_, _, _)
Insert(ranked, node, question) ==
    IF ranked = <<>> THEN << node >>
    ELSE IF Score(question, node) > Score(question, Head(ranked))
    THEN << node >> \o ranked
    ELSE << Head(ranked) >> \o Insert(Tail(ranked), node, question)

RECURSIVE Ranked(_, _)
Ranked(docs, question) ==
    IF docs = <<>> THEN <<>>
    ELSE Insert(Ranked(SubSeq(docs, 1, Len(docs) - 1), question),
                docs[Len(docs)], question)

Min(a, b) == IF a < b THEN a ELSE b

\* VectorIndexRetriever(index, similarity_top_k=k).retrieve(question): the k
\* most similar nodes, most similar first, insertion order among equals
Retrieve(docs, question, k) ==
    SubSeq(Ranked(docs, question), 1, Min(k, Len(docs)))

----------------------------------------------------------------------------
(* PromptManager and ConversationBufferMemory *)

TemplateNames == {"paper_analysis", "code_analysis", "comprehensive"}

\* input_variables of each PromptTemplate
InputVariables(name) ==
    IF name = "comprehensive" THEN {"context", "query", "history"}
    ELSE {"context", "query"}

\* the mode names query() is called with; "timeline" has no template
QueryTypes == TemplateNames \cup {"timeline"}

HumanMessage(text) == [type |-> "human", content |-> text]
AIMessage(text) == [type |-> "ai", content |-> text]

\* memory.load_memory_variables({})["chat_history"] with return_messages=True
load_memory_variables(mem) == mem

\* PromptManager.get_template: the template of that name, the comprehensive
\* one for any other name
get_template(template_name) ==
    IF template_name \in TemplateNames THEN template_name ELSE "comprehensive"

\* mutant: the memory keeps the latest turn only
save_context_Latest(mem, question, response) ==
    << HumanMessage(question), AIMessage(response) >>

\* ConversationBufferMemory.save_context: input_key "query", the chain's output
save_context(mem, question, response) ==
    mem \o << HumanMessage(question), AIMessage(response) >>

\* mutant: no chain is bound to the memory
ChainMemory_None(name) == FALSE

\* mutant: every chain is bound to the memory
ChainMemory_All(name) == TRUE

\* LLMChain(..., memory=self.memory if name == "comprehensive" else None)
ChainMemory(name) == name = "comprehensive"

\* setup_llm: one chain per template
setup_llm == TemplateNames

----------------------------------------------------------------------------
(* State *)

NoPrompt == [template |-> "None", slots |-> {}, context |-> <<>>,
             query |-> "", history |-> <<>>]

NoCall ==
    [status |-> "NoCall", handler |-> "None", question |-> "", query_type |-> "",
     selected_papers |-> {}, selected_codes |-> {},
     paper_nodes |-> <<>>, codes_scanned |-> FALSE, retrieved |-> FALSE,
     nodes |-> <<>>, prompt |-> NoPrompt, completions |-> 0,
     response |-> "", sources |-> <<>>, method |-> <<>>,
     memory_before |-> <<>>]

Init ==
    /\ current_data_source = NoSource
    /\ papers = <<>>
    /\ index = NoIndex
    /\ query_engine = "None"
    /\ chains = {}
    /\ memory = <<>>
    /\ call = NoCall

\* st.session_state.rag_system is not None
RagExists == current_data_source # NoSource

----------------------------------------------------------------------------
(* RAGSystem.query *)

\* mutant: any chunk that carries a title passes the paper filter
MatchesPapers_AnyTitle(node, selected_papers) ==
    node.metadata.title # NoKey

\* mutant: the paper filter also takes the chunks whose paper_title is selected
MatchesPapers_OrPaperTitle(node, selected_papers) ==
    \/ node.metadata.title # NoKey /\ node.metadata.title \in selected_papers
    \/ /\ node.metadata.paper_title # NoKey
       /\ node.metadata.paper_title \in selected_papers

\* 'title' in node.metadata and node.metadata['title'] in selected_papers
MatchesPapers(node, selected_papers) ==
    /\ node.metadata.title # NoKey
    /\ node.metadata.title \in selected_papers

\* mutant: the code filter does not look at the source kind
MatchesCodes_AnySource(node, selected_codes) ==
    /\ node.metadata.paper_title # NoKey
    /\ node.metadata.paper_title \in selected_codes

\* source in ['github', 'PWC code info'] and paper_title in selected_codes
MatchesCodes(node, selected_codes) ==
    /\ node.metadata.source \in {"github", "PWC code info"}
    /\ node.metadata.paper_title # NoKey
    /\ node.metadata.paper_title \in selected_codes

PaperFilter(docs, selected_papers) ==
    IF selected_papers # {}
    THEN SelectSeq(docs, LAMBDA node : MatchesPapers(node, selected_papers))
    ELSE <<>>

\* mutant: the code filter runs whenever codes are selected
CodesScanned_Whenever(paper_nodes, selected_codes) ==
    selected_codes # {}

\* the code filter runs only when codes are selected and no node was found
CodesScanned(paper_nodes, selected_codes) ==
    selected_codes # {} /\ paper_nodes = <<>>

CodeFilter(docs, selected_codes) ==
    SelectSeq(docs, LAMBDA node : MatchesCodes(node, selected_codes))

\* the nodes left by the two filters, before the fallback to retrieval
FilteredNodes(docs, paper_nodes, selected_codes) ==
    IF CodesScanned(paper_nodes, selected_codes)
    THEN paper_nodes \o CodeFilter(docs, selected_codes)
    ELSE paper_nodes

\* mutant: no fallback to retrieval when a selection finds no node
UsesRetriever_OnlyUnselected(filtered, selected_papers, selected_codes) ==
    selected_papers = {} /\ selected_codes = {}

\* retrieval is used when nothing is selected or the filters found no node
UsesRetriever(filtered, selected_papers, selected_codes) ==
    IF selected_papers # {} \/ selected_codes # {}
    THEN filtered = <<>>
    ELSE TRUE

\* lines 509-536 of query(): the locals that decide the nodes, and the nodes
SelectNodes(docs, question, selected_papers, selected_codes) ==
    LET paper_nodes == PaperFilter(docs, selected_papers)
        filtered == FilteredNodes(docs, paper_nodes, selected_codes)
        retrieved == UsesRetriever(filtered, selected_papers, selected_codes)
    IN  [paper_nodes |-> paper_nodes,
         codes_scanned |-> CodesScanned(paper_nodes, selected_codes),
         retrieved |-> retrieved,
         nodes |-> IF retrieved
                   THEN Retrieve(docs, question, SimilarityTopK)
                   ELSE filtered]

\* "\n\n".join([node.text for node in nodes])
Context(nodes) == [i \in 1..Len(nodes) |-> nodes[i].text]

\* the values the chain's prompt is rendered from
Prompt(query_type, context, question, history) ==
    [template |-> query_type, slots |-> InputVariables(query_type),
     context |-> context, query |-> question,
     history |-> IF query_type = "comprehensive" THEN history ELSE <<>>]

\* mutant: a text of exactly ExcerptChars characters is cut as well
Excerpt_CutAtLimit(text) ==
    IF text.chars >= ExcerptChars
    THEN [of |-> text, chars |-> ExcerptChars, ellipsis |-> TRUE]
    ELSE [of |-> text, chars |-> text.chars, ellipsis |-> FALSE]

\* node.text[:200] + "..." if len(node.text) > 200 else node.text: the text
\* it is taken from, how many of its first characters, whether "..." follows
Excerpt(text) ==
    IF text.chars > ExcerptChars
    THEN [of |-> text, chars |-> ExcerptChars, ellipsis |-> TRUE]
    ELSE [of |-> text, chars |-> text.chars, ellipsis |-> FALSE]

\* the "sources" of the result: one per node, in the nodes' order
Sources(nodes) ==
    [i \in 1..Len(nodes) |->
        [text |-> Excerpt(nodes[i].text), metadata |-> nodes[i].metadata]]

\* mutant: the tag names the mode whether or not the mode has a chain
Method_AlwaysChain(chs, query_type) == <<"langchain_", query_type>>

\* f"langchain_{query_type}" if query_type in self.chains else "llamaindex":
\* the pieces the tag is made of
Method(chs, query_type) ==
    IF query_type \in chs THEN <<"langchain_", query_type>> ELSE <<"llamaindex">>

\* the completion capability raises
Raise == "<raise>"

\* the completion capability's text for a prompt about the question
Answer(question) == IF question = "q1" THEN "a1" ELSE "a2"

\* mutant: a mode without a chain is answered by the comprehensive chain
ChainFor_OrComprehensive(chs, query_type) ==
    IF query_type \in chs THEN query_type
    ELSE IF get_template(query_type) \in chs THEN get_template(query_type)
    ELSE "None"

\* if query_type in self.chains: chain = self.chains[query_type]; "None" when
\* the mode has no chain and the query engine answers
ChainFor(chs, query_type) ==
    IF query_type \in chs THEN query_type ELSE "None"

\* mutant: a failure of the completion is taken for an answer
Raised_Swallowed(completion) == FALSE

\* chain.invoke / query_engine.query raises; query() has no except clause,
\* so the exception leaves query()
Raised(completion) == completion = Raise

\* mutant: the question of a failed call is kept in the memory
AfterFailedInvoke_SavesQuestion(mem, question) ==
    mem \o << HumanMessage(question) >>

\* the memory after chain.invoke raised: save_context runs only on the
\* chain's output, which a failed call does not have
AfterFailedInvoke(mem, question) == mem

\* mutant: the index check is dropped
IndexBuilt_Always(idx) == TRUE

\* if not self.index: raise ValueError
IndexBuilt(idx) == idx.exists

\* query() on a RAGSystem with the given fields; completion is what the
\* completion capability does if it is invoked.  The record holds the call
\* (arguments, locals, outcome) and the memory the call leaves.
query(idx, engine, chs, mem, question, query_type, selected_papers, selected_codes, completion) ==
    LET args == [NoCall EXCEPT !.question = question,
                               !.query_type = query_type,
                               !.selected_papers = selected_papers,
                               !.selected_codes = selected_codes,
                               !.memory_before = mem]
        sel == SelectNodes(idx.docs, question, selected_papers, selected_codes)
        nodes == sel.nodes
        located ==
            [args EXCEPT
                !.paper_nodes = sel.paper_nodes,
                !.codes_scanned = sel.codes_scanned,
                !.retrieved = sel.retrieved,
                !.nodes = nodes,
                !.method = Method(chs, query_type)]
        history == load_memory_variables(mem)
        chain == ChainFor(chs, query_type)
        prompted ==
            [located EXCEPT
                !.prompt = Prompt(chain, Context(nodes), question, history),
                !.completions = 1]
    IN  IF ~IndexBuilt(idx)
        THEN [call |-> [args EXCEPT !.status = "IndexNotBuilt"], memory |-> mem]
        ELSE IF chain # "None"
        THEN IF Raised(completion)
             THEN [call |-> [prompted EXCEPT !.status = "CompletionFailure"],
                   memory |-> IF ChainMemory(chain)
                              THEN AfterFailedInvoke(mem, question)
                              ELSE mem]
             ELSE [call |-> [prompted EXCEPT !.status = "ok",
                                             !.response = completion,
                                             !.sources = Sources(nodes)],
                   memory |-> IF ChainMemory(chain)
                              THEN save_context(mem, question, completion)
                              ELSE mem]
        ELSE IF engine = "None"
        THEN [call |-> [located EXCEPT !.status = "NoQueryEngine"], memory |-> mem]
        ELSE IF Raised(completion)
        THEN [call |-> [located EXCEPT !.status = "CompletionFailure",
                                       !.completions = 1],
              memory |-> mem]
        ELSE [call |-> [located EXCEPT !.status = "ok", !.completions = 1,
                                       !.response = completion,
                                       !.sources = Sources(nodes)],
              memory |-> mem]

\* selected_papers / selected_codes: nothing, two indexed titles, an unknown one
Selections == {{}, {"A", "C"}, {"Z"}}

Args(q, m, sp, sc, raises) ==
    [question |-> q, query_type |-> m, selected_papers |-> sp,
     selected_codes |-> sc, raises |-> raises]

\* the calls of query(): one question in every mode without selection, with
\* the completion answering or raising, and the other question in the mode
\* with memory; one question with every pair of selections in a mode without
\* memory, and with a paper and a code selection in the mode with memory
QueryArgs ==
    { Args("q1", m, {}, {}, raises) : m \in QueryTypes, raises \in BOOLEAN }
    \cup { Args("q2", "comprehensive", {}, {}, FALSE) }
    \cup { Args("q1", "paper_analysis", sp, sc, FALSE) :
             sp \in Selections, sc \in Selections }
    \cup { Args("q1", "comprehensive", {"A", "C"}, {}, FALSE),
           Args("q1", "comprehensive", {}, {"A", "C"}, FALSE) }

\* mutant: the nodes a query selects are taken out of the index
Query_TakesNodes(question, query_type, selected_papers, selected_codes, completion) ==
    /\ RagExists
    /\ \E r \in { query(index, query_engine, chains, memory, question, query_type,
                         selected_papers, selected_codes, completion) } :
        /\ Len(r.memory) <= 2 * MaxTurns
        /\ call' = r.call
        /\ memory' = r.memory
        /\ index' = [index EXCEPT !.docs =
                        SelectSeq(index.docs, LAMBDA d : d \notin
                            {r.call.nodes[i] : i \in 1..Len(r.call.nodes)})]
        /\ UNCHANGED <<current_data_source, papers, query_engine, chains>>

Query(question, query_type, selected_papers, selected_codes, completion) ==
    /\ RagExists
    /\ \E r \in { query(index, query_engine, chains, memory, question, query_type,
                         selected_papers, selected_codes, completion) } :
        /\ Len(r.memory) <= 2 * MaxTurns
        /\ call' = r.call
        /\ memory' = r.memory
        /\ UNCHANGED <<current_data_source, papers, index, query_engine, chains>>

\* mutant: clear_memory discards nothing
clear_memory_Keep(mem) == mem

\* RAGSystem.clear_memory
clear_memory(mem) == <<>>

ClearMemory ==
    /\ RagExists
    /\ memory' = clear_memory(memory)
    /\ call' = [NoCall EXCEPT !.status = "cleared", !.memory_before = memory]
    /\ UNCHANGED <<current_data_source, papers, index, query_engine, chains>>

----------------------------------------------------------------------------
(* Session handlers of app.py.  Each starts with configure_rag_system(),    *)
(* which needs an API key; without one the handler reports an error and     *)
(* changes nothing.                                                         *)

\* configure_rag_system creates a new RAGSystem when there is none or the
\* selected data source differs from the current one
NeedsNewRag(ds) == ~RagExists \/ current_data_source # ds

\* mutant: setup_llm gives the RAGSystem a new memory
Configured_NewMemory(ds) ==
    IF NeedsNewRag(ds)
    THEN [index |-> NoIndex, query_engine |-> "None", memory |-> <<>>]
    ELSE [index |-> index, query_engine |-> query_engine, memory |-> <<>>]

\* the RAGSystem's index, query_engine and memory after configure_rag_system
Configured(ds) ==
    IF NeedsNewRag(ds)
    THEN [index |-> NoIndex, query_engine |-> "None", memory |-> <<>>]
    ELSE [index |-> index, query_engine |-> query_engine, memory |-> memory]

\* the handler that has just run, and whether it ended in its except branch
Handled(name, failed) ==
    [NoCall EXCEPT !.handler = IF failed THEN name \o "_failed" ELSE name]

\* mutant: the old index is dropped before the new one is built
KeptOnFailure_Dropped(rag) ==
    [rag EXCEPT !.index = NoIndex, !.query_engine = "None"]

\* an exception in search_papers, process_papers or from_documents leaves
\* self.index and self.query_engine as they were: both are assigned only
\* after from_documents has returned
KeptOnFailure(rag) == rag

\* search_and_index: the index and the query engine are replaced together
search_and_index(found) ==
    [index |-> from_documents(process_papers(found)), query_engine |-> "live"]

\* search button: search_and_index succeeds and the session takes its papers
SearchButton(ds, found) ==
    LET rag == Configured(ds)
        built == search_and_index(found)
    IN  /\ current_data_source' = ds
        /\ chains' = setup_llm
        /\ memory' = rag.memory
        /\ index' = built.index
        /\ query_engine' = built.query_engine
        /\ papers' = found
        /\ call' = Handled("search", FALSE)

\* search button: optimize_query, the paper search or the embedding raises
\* after the RAGSystem was configured
SearchButtonRaises(ds) ==
    LET rag == KeptOnFailure(Configured(ds))
    IN  /\ current_data_source' = ds
        /\ chains' = setup_llm
        /\ memory' = rag.memory
        /\ index' = rag.index
        /\ query_engine' = rag.query_engine
        /\ call' = Handled("search", TRUE)
        /\ UNCHANGED papers

\* a query engine built on an index that has been replaced since
Outdated(engine) == IF engine = "None" THEN "None" ELSE "stale"

\* rebuild button: the uploaded records are indexed; query_engine is not touched
RebuildButton(ds, loaded) ==
    LET rag == Configured(ds)
    IN  /\ papers' = loaded
        /\ current_data_source' = ds
        /\ chains' = setup_llm
        /\ memory' = rag.memory
        /\ index' = from_documents(process_papers(loaded))
        /\ query_engine' = Outdated(rag.query_engine)
        /\ call' = Handled("rebuild", FALSE)

\* rebuild button: process_papers or from_documents raises; the session has
\* taken the uploaded records already
RebuildButtonRaises(ds, loaded) ==
    LET rag == KeptOnFailure(Configured(ds))
    IN  /\ papers' = loaded
        /\ current_data_source' = ds
        /\ chains' = setup_llm
        /\ memory' = rag.memory
        /\ index' = rag.index
        /\ query_engine' = rag.query_engine
        /\ call' = Handled("rebuild", TRUE)

Titles(ps) == {ps[i].title : i \in 1..Len(ps)}

\* mutant: no title is taken for one of the session
AlreadyInSession_Never(new_paper, ps) == FALSE

\* new_paper.title in existing_titles
AlreadyInSession(new_paper, ps) == new_paper.title \in Titles(ps)

\* add-paper button with a paper fetched and not yet in the session: it is
\* appended, and its documents are inserted into the index or start one
AddPaperButton(ds, new_paper) ==
    LET rag == Configured(ds)
        documents == process_papers(<<new_paper>>)
    IN  /\ ~AlreadyInSession(new_paper, papers)
        /\ Len(rag.index.docs) + Len(documents) <= MaxNodes
        /\ papers' = Append(papers, new_paper)
        /\ current_data_source' = ds
        /\ chains' = setup_llm
        /\ memory' = rag.memory
        /\ index' = IF rag.index.exists
                    THEN insert_nodes(rag.index, documents)
                    ELSE from_documents(documents)
        /\ query_engine' = rag.query_engine
        /\ call' = Handled("add_paper", FALSE)

\* add-paper button, nothing added: add_paper_from_arxiv_link returned None
\* (fetched is empty), or the paper's title is one of the session's
AddPaperButtonNotAdded(ds, fetched) ==
    LET rag == Configured(ds)
    IN  /\ fetched # <<>> => AlreadyInSession(fetched[1], papers)
        /\ current_data_source' = ds
        /\ chains' = setup_llm
        /\ memory' = rag.memory
        /\ index' = rag.index
        /\ query_engine' = rag.query_engine
        /\ call' = Handled(IF fetched = <<>> THEN "add_paper_none"
                           ELSE "add_paper_rejected", FALSE)
        /\ UNCHANGED papers

\* add-paper button with a new paper: the paper is appended to the session,
\* then process_papers, insert_nodes or from_documents raises
AddPaperButtonRaises(ds, new_paper) ==
    LET rag == KeptOnFailure(Configured(ds))
    IN  /\ ~AlreadyInSession(new_paper, papers)
        /\ papers' = Append(papers, new_paper)
        /\ current_data_source' = ds
        /\ chains' = setup_llm
        /\ memory' = rag.memory
        /\ index' = rag.index
        /\ query_engine' = rag.query_engine
        /\ call' = Handled("add_paper", TRUE)

Next ==
    \/ \E ds \in DataSource : \E found \in Found(ds) : SearchButton(ds, found)
    \/ \E ds \in DataSource : SearchButtonRaises(ds)
    \/ \E ds \in DataSource, loaded \in LoadedFiles : RebuildButton(ds, loaded)
    \/ \E ds \in DataSource, loaded \in FailedUploads :
            RebuildButtonRaises(ds, loaded)
    \/ \E ds \in DataSource, new_paper \in ArxivRecords :
            AddPaperButton(ds, new_paper)
    \/ \E ds \in DataSource :
       \E fetched \in { <<>> } \cup { << r >> : r \in ArxivRecords } :
            AddPaperButtonNotAdded(ds, fetched)
    \/ \E ds \in DataSource, new_paper \in FailedAdds :
            AddPaperButtonRaises(ds, new_paper)
    \/ \E args \in QueryArgs :
            Query(args.question, args.query_type, args.selected_papers,
                  args.selected_codes,
                  IF args.raises THEN Raise ELSE Answer(args.question))
    \/ ClearMemory

Spec == Init /\ [][Next]_vars

----------------------------------------------------------------------------
(* The methods that keep no state of their own, applied to inputs drawn in  *)
(* the initial state: process_papers, save_data and load_data to a list of  *)
(* records, add_paper_from_arxiv_link to a link and what the arXiv and      *)
(* GitHub requests give for it.                                             *)

\* the fields of PaperData that are Optional
OptionalFields ==
    {"pdf_url", "published", "github_url", "github_info", "code_info",
     "dataset_info", "metrics"}

JsonType(key) ==
    CASE key = "authors" -> "array"
      [] key \in {"github_info", "code_info", "dataset_info", "metrics"} -> "object"
      [] OTHER -> "string"

\* json.dump of a field's value: None is written as null
json_dump(key, v) ==
    IF key \in OptionalFields /\ v = Unset THEN << "null" >>
    ELSE << JsonType(key), v >>

\* mutant: a null is read as an empty mapping
json_load_NullAsEmpty(j) == IF j[1] = "null" THEN Empty ELSE j[2]

\* json.load of a value: null is read as None
json_load(j) == IF j[1] = "null" THEN Unset ELSE j[2]

\* save_data: the paper_dict of one record, as it stands in the file
paper_dict(paper) ==
    [title |-> json_dump("title", paper.title),
     authors |-> json_dump("authors", paper.authors),
     summary |-> json_dump("summary", paper.summary),
     pdf_url |-> json_dump("pdf_url", paper.pdf_url),
     published |-> json_dump("published", paper.published),
     github_url |-> json_dump("github_url", paper.github_url),
     github_info |-> json_dump("github_info", paper.github_info),
     code_info |-> json_dump("code_info", paper.code_info),
     dataset_info |-> json_dump("dataset_info", paper.dataset_info),
     metrics |-> json_dump("metrics", paper.metrics)]

\* save_data: the content of the file written
save_data(ps) == [i \in 1..Len(ps) |-> paper_dict(ps[i])]

\* load_data: one PaperData per item of the file, from item[...] and item.get(...)
load_data(data) ==
    [i \in 1..Len(data) |->
        [title |-> json_load(data[i].title),
         authors |-> json_load(data[i].authors),
         summary |-> json_load(data[i].summary),
         pdf_url |-> json_load(data[i].pdf_url),
         published |-> json_load(data[i].published),
         github_url |-> json_load(data[i].github_url),
         github_info |-> json_load(data[i].github_info),
         code_info |-> json_load(data[i].code_info),
         dataset_info |-> json_load(data[i].dataset_info),
         metrics |-> json_load(data[i].metrics)]]

\* a link: its host, the path section after it, the identifier and version
Links ==
    [host : {"arxiv.org", "paperswithcode.com"},
     section : {"abs", "pdf", "list"},
     id : {"2103.14030", "hep-th/9901001", ""},
     version : {"", "v2"}]

\* the longest run of digits and dots an identifier starts with
LeadingDigits(id) == IF id = "2103.14030" THEN id ELSE ""

\* re.search(r'arxiv\.org/(?:abs|pdf)/([\d\.]+)(?:v\d+)?', link): group 1, or
\* None when the link does not match
arxiv_id(link) ==
    IF /\ link.host = "arxiv.org"
       /\ link.section \in {"abs", "pdf"}
       /\ LeadingDigits(link.id) # ""
    THEN LeadingDigits(link.id)
    ELSE Unset

\* what client.results(search) does: raises, or yields its results
Fetches ==
    { [raises |-> TRUE, results |-> <<>>],
      [raises |-> FALSE, results |-> <<>>],
      [raises |-> FALSE,
       results |-> << [PaperData("A", 1500, Unset, Unset, Unset, Unset)
                         EXCEPT !.authors = << "X", "Y" >>,
                                !.pdf_url = "url",
                                !.published = "date"] >>] }

\* what the enrichment does: raises, or finds no repository link in the
\* abstract (None), or a link and getGitInfo's mapping for it
Enrichments ==
    { [raises |-> TRUE, github_info |-> Unset] }
    \cup { [raises |-> FALSE, github_info |-> gh] : gh \in {Unset, Empty, Full} }

\* ArxivAPI.enrich_paper_data
enrich_paper_data(paper, github_info) ==
    IF github_info = Unset THEN paper
    ELSE [paper EXCEPT !.github_url = "url", !.github_info = github_info]

Returns(value) == [raised |-> FALSE, value |-> value]
Raises == [raised |-> TRUE, value |-> <<>>]

\* mutant: no except clause around the body
except_Exception_Missing(outcome) == outcome

\* try: ... except Exception: return None
except_Exception(outcome) == IF outcome.raised THEN Returns(<<>>) ELSE outcome

\* add_paper_from_arxiv_link: an Optional[PaperData] as a sequence of at most
\* one record, or an exception that leaves the method
add_paper_from_arxiv_link(data_source, link, fetch, enrich) ==
    except_Exception(
        IF arxiv_id(link) = Unset THEN Returns(<<>>)
        ELSE IF fetch.raises THEN Raises
        ELSE IF fetch.results = <<>> THEN Returns(<<>>)
        ELSE IF enrich.raises THEN Raises
        ELSE IF data_source = ARXIV
        THEN Returns(<< enrich_paper_data(Head(fetch.results), enrich.github_info) >>)
        ELSE Returns(<< enrich_paper_data(Head(fetch.results), enrich.github_info) >>))

\* an item of the external search's answer: its title ("" when the answer
\* carries none), whether it has what the enrichment starts from (a repository
\* link in the abstract for arXiv, an id for Papers with Code), and whether
\* each request of the enrichment answers ("ok") or fails ("fail": the
\* request raises or its status is not 200)
Items(ds) ==
    [title : IF ds = ARXIV THEN {"A"} ELSE {"A", ""},
     key : BOOLEAN,
     repo : {"ok", "fail"},
     datasets : IF ds = ARXIV THEN {"ok"} ELSE {"ok", "fail"},
     results : IF ds = ARXIV THEN {"ok"} ELSE {"ok", "fail"}]

\* what the external paper search does: fails, or answers with its items
Searches(ds) ==
    { [fails |-> TRUE, items |-> <<>>], [fails |-> FALSE, items |-> <<>>] }
    \cup { [fails |-> FALSE, items |-> << it >>] : it \in Items(ds) }
    \cup { [fails |-> FALSE,
            items |-> << it, [title |-> "B", key |-> TRUE, repo |-> "ok",
                              datasets |-> "ok", results |-> "ok"] >>] :
             it \in Items(ds) }

\* getGitInfo: the repository's mapping, {} when a request raises or fails
getGitInfo(outcome) == IF outcome = "ok" THEN Full ELSE Empty

\* getRepo: response.json(), {} when the request raises or fails
getRepo(outcome) == IF outcome = "ok" THEN Full ELSE Empty

\* mutant: a failed request leaves a mapping with content
getDatasets_Content(outcome) == Full

\* getDatasets: response.json(), {} when the request raises or fails
getDatasets(outcome) == IF outcome = "ok" THEN Full ELSE Empty

\* getEvalRes: response.json(), {} when the request raises or fails
getEvalRes(outcome) == IF outcome = "ok" THEN Full ELSE Empty

\* PWCAPI.enrich_paper_data(paper, paper_id): nothing without an id; the
\* repository link is taken from the repositories found
PWC_enrich_paper_data(paper, item) ==
    IF item.key
    THEN [paper EXCEPT
            !.code_info = getRepo(item.repo),
            !.github_url = IF Truthy(getRepo(item.repo)) THEN "url" ELSE Unset,
            !.dataset_info = getDatasets(item.datasets),
            !.metrics = getEvalRes(item.results)]
    ELSE paper

\* the PaperData a search makes of an item before it is enriched
ItemPaper(item) ==
    [PaperData(item.title, 100, Unset, Unset, Unset, Unset)
       EXCEPT !.authors = << "X" >>, !.pdf_url = "url", !.published = "date"]

\* ArxivAPI.search_papers: no except clause, a failure of the search leaves
\* the method as an exception
ArxivAPI_search_papers(search) ==
    IF search.fails THEN Raises
    ELSE Returns([i \in 1..Len(search.items) |->
            enrich_paper_data(ItemPaper(search.items[i]),
                IF search.items[i].key
                THEN getGitInfo(search.items[i].repo) ELSE Unset)])

\* PWCAPI.search_papers: [] when the request raises or its status is not 200
PWCAPI_search_papers(search) ==
    except_Exception(
        IF search.fails THEN Raises
        ELSE Returns([i \in 1..Len(search.items) |->
                PWC_enrich_paper_data(ItemPaper(search.items[i]), search.items[i])]))

\* self.dataAPI.search_papers
search_papers(data_source, search) ==
    IF data_source = ARXIV THEN ArxivAPI_search_papers(search)
    ELSE PWCAPI_search_papers(search)

\* the records the lists are made of: with and without title, abstract,
\* authors and links, and every combination of the four mappings being None,
\* empty or filled
PaperInputs ==
    { [PaperData(t, n, gh, ci, di, me)
         EXCEPT !.authors = IF set THEN << "X", "Y" >> ELSE <<>>,
                !.pdf_url = IF set THEN "url" ELSE Unset,
                !.published = IF set THEN "date" ELSE Unset] :
        t \in {"A", ""}, n \in {0, 1500}, set \in BOOLEAN,
        gh \in {Unset, Empty, Full}, ci \in {Unset, Empty, Full},
        di \in {Unset, Empty, Full}, me \in {Unset, Empty, Full} }

\* the lists of records: none, one, one followed by a paper with a data set only
PaperLists ==
    { <<>> }
    \cup { << r >> : r \in PaperInputs }
    \cup { << r, PaperData("B", 100, Unset, Unset, Full, Unset) >> : r \in PaperInputs }

LinkInput(link, fetch, enrich) ==
    [status |-> "link", link |-> link, fetch |-> fetch, enrich |-> enrich,
     result |-> Returns(<<>>)]

SearchInput(search) ==
    [status |-> "search", search |-> search, result |-> Returns(<<>>)]

\* a RAGSystem as constructed, and the input of one of the methods
InitLibrary ==
    /\ current_data_source \in DataSource
    /\ index = NoIndex
    /\ query_engine = "None"
    /\ chains = {}
    /\ memory = <<>>
    /\ \/ papers \in PaperLists /\ call = NoCall
       \/ /\ papers = <<>>
          /\ call \in { LinkInput(link, fetch, enrich) :
                          link \in Links, fetch \in Fetches, enrich \in Enrichments }
       \/ /\ papers = <<>>
          /\ call \in { SearchInput(search) : search \in Searches(current_data_source) }

ProcessPapers ==
    /\ call.status = "NoCall"
    /\ call' = [status |-> "processed", documents |-> process_papers(papers)]
    /\ UNCHANGED <<current_data_source, papers, index, query_engine, chains, memory>>

SaveData ==
    /\ call.status = "NoCall"
    /\ call' = [status |-> "saved", file |-> save_data(papers)]
    /\ UNCHANGED <<current_data_source, papers, index, query_engine, chains, memory>>

LoadData ==
    /\ call.status = "saved"
    /\ call' = [status |-> "loaded", file |-> call.file,
                papers |-> load_data(call.file)]
    /\ UNCHANGED <<current_data_source, papers, index, query_engine, chains, memory>>

AddPaperFromArxivLink ==
    /\ call.status = "link"
    /\ call' = [call EXCEPT
                  !.status = "added",
                  !.result = add_paper_from_arxiv_link(current_data_source,
                                 call.link, call.fetch, call.enrich)]
    /\ UNCHANGED <<current_data_source, papers, index, query_engine, chains, memory>>

\* RAGSystem.search_and_index: what it returns or raises, and the index and
\* query engine it leaves
SearchAndIndex ==
    /\ call.status = "search"
    /\ \E r \in { search_papers(current_data_source, call.search) } :
        /\ call' = [call EXCEPT !.status = "searched", !.result = r]
        /\ index' = IF r.raised THEN index ELSE search_and_index(r.value).index
        /\ query_engine' = IF r.raised THEN query_engine
                           ELSE search_and_index(r.value).query_engine
    /\ UNCHANGED <<current_data_source, papers, chains, memory>>

NextLibrary ==
    \/ ProcessPapers
    \/ SaveData
    \/ LoadData
    \/ AddPaperFromArxivLink
    \/ SearchAndIndex

SpecLibrary == InitLibrary /\ [][NextLibrary]_vars

----------------------------------------------------------------------------
(* Properties.  call describes the query() just made; query() leaves the    *)
(* index alone, so index is the index that call ran against.                *)

Range(seq) == {seq[i] : i \in 1..Len(seq)}

IsPrefix(a, b) == Len(a) <= Len(b) /\ SubSeq(b, 1, Len(a)) = a

\* the call was a query() that got past the index check
Selected == call.status \in {"ok", "CompletionFailure", "NoQueryEngine"}

\* the title of the paper a chunk was made from
Owner(node) ==
    IF node.metadata.title # NoKey THEN node.metadata.title
    ELSE node.metadata.paper_title

\* the chunks that carry a title in the selected papers
TitledIn(docs, selected_papers) ==
    SelectSeq(docs, LAMBDA d : d.metadata.title \in selected_papers)

\* the github and code_info chunks of the selected code owners
CodeOf(docs, selected_codes) ==
    SelectSeq(docs, LAMBDA d :
        /\ d.metadata.source \in {"github", "PWC code info"}
        /\ d.metadata.paper_title \in selected_codes)

\* nodes are the k chunks of docs most similar to the question, best first
IsTopK(nodes, docs, question, k) ==
    /\ Len(nodes) = Min(k, Len(docs))
    /\ Range(nodes) \subseteq Range(docs)
    /\ \A i, j \in 1..Len(nodes) :
          i < j => Score(question, nodes[i]) >= Score(question, nodes[j])
    /\ \A d \in Range(docs) \ Range(nodes) : \A n \in Range(nodes) :
          Score(question, d) <= Score(question, n)

\* C1: a query on a RAGSystem whose index was never built fails with
\* IndexNotBuilt whatever its arguments: it returns no response, selects no
\* chunk and never invokes the completion capability.
C1_QueryBeforeBuildFails ==
    (call.status \notin {"NoCall", "cleared"} /\ ~index.exists) =>
        /\ call.status = "IndexNotBuilt"
        /\ call.completions = 0
        /\ call.response = ""
        /\ call.nodes = <<>>
        /\ call.prompt = NoPrompt

C1_Witness ==
    /\ call.status = "IndexNotBuilt"
    /\ call.selected_papers # {}
    /\ call.selected_codes # {}

\* C2: with a non-empty selected_papers that matches an indexed chunk, every
\* chunk in the nodes, and every text in the context, is of a paper whose
\* title is selected.
C2_OnlySelectedPapers ==
    (/\ Selected
     /\ call.selected_papers # {}
     /\ \E d \in Range(index.docs) : Owner(d) \in call.selected_papers) =>
        /\ call.nodes # <<>>
        /\ \A n \in Range(call.nodes) : Owner(n) \in call.selected_papers
        /\ call.status # "NoQueryEngine" =>
              /\ Len(call.prompt.context) = Len(call.nodes)
              /\ \A t \in Range(call.prompt.context) : t.of \in call.selected_papers

C2_Witness ==
    /\ call.status = "ok"
    /\ call.selected_papers = {"A", "C"}
    /\ call.nodes # <<>>
    /\ \E d \in Range(index.docs) : Owner(d) = "B"

\* C3 as claimed: with a non-empty selected_papers the nodes hold every chunk
\* whose title is selected and every chunk whose paper_title is selected.
C3_Claimed ==
    (Selected /\ call.selected_papers # {}) =>
        \A d \in Range(index.docs) :
            (\/ d.metadata.title \in call.selected_papers
             \/ d.metadata.paper_title \in call.selected_papers)
            => d \in Range(call.nodes)

\* C3 amended: with a non-empty selected_papers that matches a chunk, the
\* nodes are exactly the "paper" chunks whose title is selected, in index
\* order; no github, code_info, dataset_info or metrics chunk is among them,
\* whatever its paper_title.
C3_PaperChunksOnly ==
    (/\ Selected
     /\ call.selected_papers # {}
     /\ TitledIn(index.docs, call.selected_papers) # <<>>) =>
        /\ call.nodes = TitledIn(index.docs, call.selected_papers)
        /\ \A n \in Range(call.nodes) : n.metadata.source = "paper"

C3_Witness ==
    /\ call.status = "ok"
    /\ call.selected_papers = {"A", "C"}
    /\ call.nodes # <<>>
    /\ \E d \in Range(index.docs) :
          d.metadata.source = "github" /\ d.metadata.paper_title = "A"

\* C4 as claimed: when a supplied selector matches no indexed chunk, or no
\* selector is supplied, the nodes come from similarity search.
C4_Claimed ==
    (/\ Selected
     /\ \/ call.selected_papers = {} /\ call.selected_codes = {}
        \/ /\ call.selected_papers # {}
           /\ TitledIn(index.docs, call.selected_papers) = <<>>
        \/ /\ call.selected_codes # {}
           /\ CodeOf(index.docs, call.selected_codes) = <<>>) =>
        /\ call.retrieved
        /\ IsTopK(call.nodes, index.docs, call.question, SimilarityTopK)

\* C4 amended: when no selector is supplied, or selected_papers (if supplied)
\* matches no chunk and selected_codes (if supplied) matches no github or
\* code_info chunk, the nodes are the SimilarityTopK chunks of the whole index
\* most similar to the question.
C4_FallbackToSimilarity ==
    (/\ Selected
     /\ \/ call.selected_papers = {}
        \/ TitledIn(index.docs, call.selected_papers) = <<>>
     /\ \/ call.selected_codes = {}
        \/ CodeOf(index.docs, call.selected_codes) = <<>>) =>
        /\ call.retrieved
        /\ IsTopK(call.nodes, index.docs, call.question, SimilarityTopK)

C4_Witness ==
    /\ call.status = "ok"
    /\ call.selected_papers = {"Z"}
    /\ call.retrieved
    /\ Len(index.docs) > SimilarityTopK
    /\ Len(call.nodes) = SimilarityTopK

\* C5: with both selectors non-empty, the code filter is consulted only if
\* the paper filter found nothing, and when the paper filter found a chunk the
\* nodes are exactly the paper filter's.
C5_PapersTakePrecedence ==
    (Selected /\ call.selected_papers # {} /\ call.selected_codes # {}) =>
        /\ call.codes_scanned <=> TitledIn(index.docs, call.selected_papers) = <<>>
        /\ TitledIn(index.docs, call.selected_papers) # <<>> =>
              call.nodes = TitledIn(index.docs, call.selected_papers)

C5_Witness ==
    /\ call.status = "ok"
    /\ call.selected_papers = {"A", "C"}
    /\ call.selected_codes = {"A", "C"}
    /\ CodeOf(index.docs, call.selected_codes) # <<>>
    /\ call.nodes # <<>>
    /\ ~call.codes_scanned

\* C6 as claimed: with only selected_codes non-empty, the nodes are exactly
\* the github and code_info chunks whose paper_title is selected.
C6_Claimed ==
    (Selected /\ call.selected_papers = {} /\ call.selected_codes # {}) =>
        call.nodes = CodeOf(index.docs, call.selected_codes)

\* C6 amended: with only selected_codes non-empty and at least one github or
\* code_info chunk whose paper_title is selected, the nodes are exactly those
\* chunks (no dataset_info, metrics or paper chunk); when there is none the
\* nodes come from similarity search.
C6_CodeChunksOnly ==
    (Selected /\ call.selected_papers = {} /\ call.selected_codes # {}) =>
        IF CodeOf(index.docs, call.selected_codes) # <<>>
        THEN /\ call.nodes = CodeOf(index.docs, call.selected_codes)
             /\ \A n \in Range(call.nodes) :
                   n.metadata.source \in {"github", "PWC code info"}
        ELSE call.retrieved

C6_Witness ==
    /\ call.status = "ok"
    /\ call.selected_papers = {}
    /\ call.selected_codes = {"A", "C"}
    /\ call.nodes # <<>>
    /\ ~call.retrieved
    /\ \E d \in Range(index.docs) :
          d.metadata.source = "PWC metrics" /\ d.metadata.paper_title = "A"

\* the step is a query() in the comprehensive mode that returned a result
ComprehensiveAnswered ==
    call'.status = "ok" /\ call'.query_type = "comprehensive"

\* the history holds the turn (question, answer) as two consecutive messages
HasTurn(history, question, answer) ==
    \E i \in 1..(Len(history) - 1) :
        /\ history[i] = HumanMessage(question)
        /\ history[i + 1] = AIMessage(answer)

\* C7: every successful comprehensive query renders its prompt from the
\* history stored before it and appends its own (question, response) turn;
\* so when a successful comprehensive query Q1 is followed by a comprehensive
\* query Q2, the history in Q2's prompt holds Q1's question and answer.
C7_ComprehensiveAppends ==
    [][ /\ ComprehensiveAnswered =>
              /\ call'.prompt.history = memory
              /\ memory' = memory \o << HumanMessage(call'.question),
                                        AIMessage(call'.response) >>
        /\ (/\ call.status = "ok"
            /\ call.query_type = "comprehensive"
            /\ call'.query_type = "comprehensive"
            /\ call'.status \in {"ok", "CompletionFailure"}) =>
              HasTurn(call'.prompt.history, call.question, call.response)
      ]_vars

C7_Witness ==
    /\ call.status = "ok"
    /\ call.query_type = "comprehensive"
    /\ call.question = "q2"
    /\ HasTurn(call.prompt.history, "q1", Answer("q1"))
    /\ HasTurn(memory, "q2", Answer("q2"))

\* C8: a query in a mode other than comprehensive leaves the memory as it
\* was, whether it returns a result or fails.
C8_OtherModesKeepMemory ==
    [][ (/\ call'.status \notin {"NoCall", "cleared"}
         /\ call'.query_type # "comprehensive") =>
            memory' = memory
      ]_vars

C8_Witness ==
    /\ call.status = "ok"
    /\ call.query_type \in {"paper_analysis", "code_analysis"}
    /\ call.memory_before # <<>>
    /\ memory = call.memory_before

\* C9: clear_memory leaves an empty history whatever was stored, and the
\* prompt of a comprehensive query made next holds no earlier turn.
C9_ClearEmptiesHistory ==
    [][ /\ call'.status = "cleared" => load_memory_variables(memory') = <<>>
        /\ (/\ call.status = "cleared"
            /\ call'.query_type = "comprehensive"
            /\ call'.status \in {"ok", "CompletionFailure"}) =>
              call'.prompt.history = <<>>
      ]_vars

C9_Witness ==
    /\ call.status = "cleared"
    /\ Len(call.memory_before) >= 4
    /\ memory = <<>>

\* C10: on one RAGSystem, every operation other than clear_memory leaves the
\* stored messages as a prefix of the messages after it.
C10_MemoryAppendOnly ==
    [][ (current_data_source' = current_data_source /\ call'.status # "cleared")
            => IsPrefix(memory, memory')
      ]_vars

C10_Witness ==
    /\ call.status = "ok"
    /\ Len(call.memory_before) >= 2
    /\ Len(memory) > Len(call.memory_before)
    /\ IsPrefix(call.memory_before, memory)

\* C11: in a returned result there is one source per selected chunk, in
\* order; its excerpt is the whole text with no ellipsis when the text has at
\* most ExcerptChars characters, and the first ExcerptChars characters
\* followed by the ellipsis when it has more.
C11_ExcerptTruncation ==
    call.status = "ok" =>
        /\ Len(call.sources) = Len(call.nodes)
        /\ \A i \in 1..Len(call.nodes) :
            LET text == call.nodes[i].text
                excerpt == call.sources[i].text
            IN  /\ excerpt.of = text
                /\ text.chars <= ExcerptChars =>
                      excerpt.chars = text.chars /\ ~excerpt.ellipsis
                /\ text.chars > ExcerptChars =>
                      excerpt.chars = ExcerptChars /\ excerpt.ellipsis

\* a result whose sources show a text of exactly ExcerptChars characters, a
\* shorter one and a longer one
C11_Witness ==
    /\ call.status = "ok"
    /\ \E i, j, k \in 1..Len(call.nodes) :
        /\ call.nodes[i].text.chars = ExcerptChars
        /\ ~call.sources[i].text.ellipsis
        /\ call.nodes[j].text.chars < ExcerptChars
        /\ call.sources[j].text.chars = call.nodes[j].text.chars
        /\ call.nodes[k].text.chars > ExcerptChars
        /\ call.sources[k].text.ellipsis

\* C12 as claimed: every returned result carries the tag "mode:" followed by
\* the mode name passed to query().
C12_Claimed ==
    call.status = "ok" => call.method = << "mode:", call.query_type >>

\* C12 amended: a returned result carries the tag "langchain_" followed by
\* the mode name when the mode is one of the three with a chain, and the tag
\* "llamaindex", which does not name the mode, for any other mode.
C12_MethodTag ==
    call.status = "ok" =>
        IF call.query_type \in TemplateNames
        THEN call.method = << "langchain_", call.query_type >>
        ELSE call.method = << "llamaindex" >>

C12_Witness ==
    /\ call.status = "ok"
    /\ call.query_type = "timeline"
    /\ call.method = << "llamaindex" >>
    /\ call.response # ""

\* C13 as claimed: a query in a mode that is not built in is answered with
\* the comprehensive template, rendered from context, query and history, and
\* its turn is stored as a comprehensive query's is.
C13_Claimed ==
    (call.status = "ok" /\ call.query_type \notin TemplateNames) =>
        /\ call.prompt.template = get_template(call.query_type)
        /\ call.prompt.slots = {"context", "query", "history"}
        /\ memory = call.memory_before
                      \o << HumanMessage(call.question), AIMessage(call.response) >>

\* C13 amended: a query in a mode that is not built in renders no template:
\* it is answered by the index's query engine from the question alone, is
\* tagged "llamaindex" and leaves the memory as it was; when no query engine
\* was ever built it fails.
C13_UnknownModeUsesQueryEngine ==
    (Selected /\ call.query_type \notin TemplateNames) =>
        /\ call.prompt = NoPrompt
        /\ call.method = << "llamaindex" >>
        /\ memory = call.memory_before
        /\ call.status = "NoQueryEngine" <=> query_engine = "None"
        /\ call.status = "NoQueryEngine" => call.completions = 0

C13_Witness ==
    /\ call.status = "ok"
    /\ call.query_type = "timeline"
    /\ call.prompt = NoPrompt
    /\ call.memory_before # <<>>
    /\ memory = call.memory_before

\* the step is a search or a rebuild whose build raised
BuildFailed == call'.handler \in {"search_failed", "rebuild_failed"}

\* C14 as claimed: when a build fails, the index that was live before it is
\* the live one after it, with its query engine.
C14_Claimed ==
    [][ BuildFailed => (index' = index /\ query_engine' = query_engine) ]_vars

\* C14 amended: when a build fails on the RAGSystem that holds the live index
\* (the data source was not changed, so the handler kept the RAGSystem), the
\* index and its query engine are the ones from before and a query is served
\* from them; when the handler replaced the RAGSystem because the data source
\* changed, the session is left with no index.  The index is never anything
\* but absent or the whole result of one build and the insertions after it.
C14_FailedBuildKeepsIndex ==
    [][ BuildFailed =>
          IF current_data_source' = current_data_source
          THEN /\ index' = index
               /\ query_engine' = query_engine
               /\ memory' = memory
               /\ chains \subseteq chains'
          ELSE index' = NoIndex /\ query_engine' = "None"
      ]_vars

\* a rebuild has failed and the index still holds the chunks of the search
\* before it, which are not the chunks of the records just uploaded
C14_Witness ==
    /\ call.handler = "rebuild_failed"
    /\ index.exists
    /\ index.docs # <<>>
    /\ query_engine = "live"
    /\ index # from_documents(process_papers(papers))

\* the step is the add-paper handler inserting into the live index of the
\* RAGSystem it kept
InsertedIntoLiveIndex ==
    /\ call'.handler = "add_paper"
    /\ current_data_source' = current_data_source
    /\ index.exists

\* C15: inserting a paper's chunks into a live index keeps every chunk that
\* was in the index, in place: the nodes after the insertion are the nodes
\* before it followed by the documents of the new paper.
C15_InsertKeepsChunks ==
    [][ InsertedIntoLiveIndex =>
          /\ IsPrefix(index.docs, index'.docs)
          /\ index'.docs =
                index.docs \o process_papers(<< papers'[Len(papers')] >>)
          /\ Len(index'.docs) > Len(index.docs)
      ]_vars

\* a paper has been inserted after the chunks of a search: the index ends
\* with its documents and holds chunks of another paper before them
C15_Witness ==
    /\ call.handler = "add_paper"
    /\ papers # <<>>
    /\ LET new == process_papers(<< papers[Len(papers)] >>)
           n == Len(index.docs)
       IN  /\ n > Len(new)
           /\ SubSeq(index.docs, n - Len(new) + 1, n) = new
           /\ \E d \in Range(index.docs) : Owner(d) # papers[Len(papers)].title

\* the node is a document as process_code_info rendered it, not a piece
IsWholeDocument(node) ==
    \E v \in {Full, Long} :
        /\ node.text.part = 0
        /\ node.text.size = SizeOf(v)
        /\ node.text.chars = InfoChars(node.text.kind, v)

\* C17 as claimed: every github, code_info, dataset_info and metrics document
\* is in the index as one unsplit chunk whatever its length, whether the
\* index was built or the document inserted.
C17_Claimed ==
    \A n \in Range(index.docs) :
        n.metadata.source # "paper" => IsWholeDocument(n)

----------------------------------------------------------------------------
(* Properties of the methods without state, under SpecLibrary *)

\* C16: process_papers returns only chunks with a non-empty text, and the
\* title metadata of every chunk (title, or paper_title) is the title of one
\* of the records it was given.
C16_ChunksNonEmptyAndTitled ==
    call.status = "processed" =>
        \A d \in Range(call.documents) :
            /\ d.text.chars > 0
            /\ Owner(d) \in Titles(papers)
            /\ d.metadata.title # NoKey \/ d.metadata.paper_title # NoKey

\* the records had no title and no abstract, and still every chunk has text
C16_Witness ==
    /\ call.status = "processed"
    /\ Len(papers) = 2
    /\ papers[1].title = "" /\ papers[1].summary = 0 /\ papers[1].authors = <<>>
    /\ Len(call.documents) >= 3
    /\ \A d \in Range(call.documents) : d.text.chars > 0

\* the source kind of the chunk made from each enrichment field
SourceOf(field) ==
    CASE field = "github_info" -> "github"
      [] field = "code_info" -> "PWC code info"
      [] field = "dataset_info" -> "PWC dataset"
      [] OTHER -> "PWC metrics"

EnrichmentFields == {"github_info", "code_info", "dataset_info", "metrics"}

\* the chunks of a source kind made for the paper of a title
ChunksOf(documents, source, title) ==
    { i \in 1..Len(documents) :
        /\ documents[i].metadata.source = source
        /\ documents[i].metadata.paper_title = title }

\* C18 as claimed: for each paper, process_papers emits exactly one chunk for
\* each enrichment field that is present, whichever other fields are present.
C18_Claimed ==
    call.status = "processed" =>
        \A i \in 1..Len(papers) : \A field \in EnrichmentFields :
            Cardinality(ChunksOf(call.documents, SourceOf(field), papers[i].title))
                = IF Truthy(papers[i][field]) THEN 1 ELSE 0

\* C19: loading the file that save_data wrote for a list of records returns
\* a list of the same length and order whose records equal the originals
\* field for field; a field that was None is None.
C19_SaveLoadRoundTrip ==
    call.status = "loaded" =>
        /\ Len(call.papers) = Len(papers)
        /\ \A i \in 1..Len(papers) : call.papers[i] = papers[i]
        /\ call.papers = papers

\* two records went through the file, one with every optional field None
C19_Witness ==
    /\ call.status = "loaded"
    /\ Len(call.papers) = 2
    /\ \A key \in OptionalFields : papers[1][key] = Unset
    /\ \A key \in OptionalFields : call.file[1][key] = << "null" >>
    /\ papers[2].dataset_info = Full
    /\ call.papers[2].dataset_info = Full

\* the link holds an arXiv identifier, the fetch yields a record and the
\* enrichment returns
FetchSucceeded(c) ==
    /\ c.link.host = "arxiv.org"
    /\ c.link.section \in {"abs", "pdf"}
    /\ c.link.id = "2103.14030"
    /\ ~c.fetch.raises
    /\ c.fetch.results # <<>>
    /\ ~c.enrich.raises

\* C20: add_paper_from_arxiv_link never raises; it returns None when the link
\* holds no identifier, when the fetch or the enrichment raises and when the
\* fetch yields no record, and it returns a record, the fetched one with its
\* enrichment, exactly when the fetch succeeded.
C20_AddPaperNeverRaises ==
    call.status = "added" =>
        /\ ~call.result.raised
        /\ call.result.value # <<>> <=> FetchSucceeded(call)
        /\ FetchSucceeded(call) =>
              /\ Len(call.result.value) = 1
              /\ call.result.value[1].title = call.fetch.results[1].title
              /\ call.result.value[1].github_info = call.enrich.github_info

\* the link was a good one and the enrichment raised: None came back
C20_Witness ==
    /\ call.status = "added"
    /\ arxiv_id(call.link) # Unset
    /\ ~call.fetch.raises /\ call.fetch.results # <<>>
    /\ call.enrich.raises
    /\ call.result = Returns(<<>>)

\* C21 as claimed: with either data source, when the external paper search
\* fails, search_and_index returns an empty list and raises nothing.
C21_Claimed ==
    (call.status = "searched" /\ call.search.fails) =>
        call.result = Returns(<<>>)

\* the fields the failed requests of an item's enrichment were to fill
FailedFields(ds, item) ==
    IF ~item.key THEN {}
    ELSE IF ds = ARXIV
    THEN (IF item.repo = "fail" THEN {"github_info"} ELSE {})
    ELSE (IF item.repo = "fail" THEN {"code_info"} ELSE {})
         \cup (IF item.datasets = "fail" THEN {"dataset_info"} ELSE {})
         \cup (IF item.results = "fail" THEN {"metrics"} ELSE {})

C24_Claimed ==
    \A n \in Range(index.docs) : Owner(n) # ""

----------------------------------------------------------------------------
(* Properties of the session, under Spec *)

\* C22: once an index exists, a query() whose completion fails returns no
\* result in any mode: it ends in a failure, with no response and no sources,
\* and the completion was invoked once at most (not at all when the mode has
\* no chain and the RAGSystem has no query engine).
C22_CompletionFailureSurfaces ==
    [][ \A args \in QueryArgs :
          (/\ args.raises
           /\ index.exists
           /\ call'.question = args.question
           /\ call'.query_type = args.query_type
           /\ Query(args.question, args.query_type, args.selected_papers,
                    args.selected_codes, Raise)) =>
              /\ call'.status \in {"CompletionFailure", "NoQueryEngine"}
              /\ call'.status = "CompletionFailure" <=>
                    (args.query_type \in chains \/ query_engine # "None")
              /\ call'.completions =
                    IF call'.status = "CompletionFailure" THEN 1 ELSE 0
              /\ call'.response = ""
              /\ call'.sources = <<>>
      ]_vars

\* the completion failed in a mode with a chain, on an index with chunks
C22_Witness ==
    /\ call.status = "CompletionFailure"
    /\ call.query_type = "code_analysis"
    /\ call.completions = 1
    /\ call.nodes # <<>>
    /\ call.response = ""

\* the step is a call of query(), whatever its outcome
QueryStep == call'.status \in {"ok", "CompletionFailure", "NoQueryEngine", "IndexNotBuilt"}

\* C25: a call of query(), in any mode and with any selection, whether it
\* returns or fails, leaves the index, its query engine and the session's
\* paper records as they were.
C25_QueryKeepsCorpus ==
    [][ QueryStep =>
          /\ index' = index
          /\ query_engine' = query_engine
          /\ papers' = papers
          /\ Range(call'.nodes) \subseteq Range(index'.docs)
      ]_vars

\* a query answered from a selection, and a failed one, on an index that
\* still holds the selected chunks and others
C25_Witness ==
    /\ call.status \in {"ok", "CompletionFailure"}
    /\ papers # <<>>
    /\ call.nodes # <<>>
    /\ Len(call.nodes) < Len(index.docs)
    /\ Range(call.nodes) \subseteq Range(index.docs)
    /\ call.status = "ok" => call.selected_papers # {} /\ ~call.retrieved

\* C26 as claimed: whenever the RAGSystem has an index, it has a query engine
\* built on that index.
C26_Claimed ==
    index.exists => query_engine = "live"

\* C27 as claimed: every chunk of the index is of a paper of the session's
\* list, and every paper of the session's list has a chunk in the index.
C27_Claimed ==
    /\ \A n \in Range(index.docs) : Owner(n) \in Titles(papers)
    /\ \A t \in Titles(papers) : \E n \in Range(index.docs) : Owner(n) = t

\* C28 as claimed: a rejected addition leaves the paper list and the index
\* unchanged; an addition appends one record with a new title and the index
\* holds what it held and chunks of the new paper.
C28_Claimed ==
    [][ /\ call'.handler = "add_paper_rejected" =>
              papers' = papers /\ index' = index
        /\ call'.handler = "add_paper" =>
              /\ Len(papers') = Len(papers) + 1
              /\ SubSeq(papers', 1, Len(papers)) = papers
              /\ papers'[Len(papers')].title \notin Titles(papers)
              /\ IsPrefix(index.docs, index'.docs)
              /\ \E n \in Range(index'.docs) :
                    Owner(n) = papers'[Len(papers')].title
      ]_vars

\* the index of the RAGSystem the handler works on: the session's when the
\* selected data source is the RAGSystem's, none when it differs and the
\* handler has replaced the RAGSystem
IndexAfterConfigure ==
    IF current_data_source' = current_data_source THEN index ELSE NoIndex

\* C28 amended: an addition whose title is one of the session's is rejected
\* and leaves the paper list unchanged; the index is unchanged when the
\* selected data source is the RAGSystem's, and gone when it differs.  An
\* addition with a new title appends exactly that record to the list; its
\* chunks are inserted after those of the index, or make a new index when
\* there is none; when indexing raises the record stays in the list and the
\* index gets no chunk.
C28_AddSinglePaper ==
    [][ /\ call'.handler = "add_paper_rejected" =>
              /\ papers' = papers
              /\ index' = IndexAfterConfigure
        /\ call'.handler \in {"add_paper", "add_paper_failed"} =>
              \E r \in ArxivRecords :
                  /\ r.title \notin Titles(papers)
                  /\ papers' = Append(papers, r)
                  /\ index' =
                        IF call'.handler = "add_paper_failed"
                        THEN IndexAfterConfigure
                        ELSE IF IndexAfterConfigure.exists
                        THEN Index(IndexAfterConfigure.docs \o process_papers(<< r >>))
                        ELSE from_documents(process_papers(<< r >>))
      ]_vars

\* an addition was rejected on a session with papers and an index with chunks
C28_Witness ==
    /\ call.handler = "add_paper_rejected"
    /\ Len(papers) = 2
    /\ index.exists
    /\ index.docs # <<>>
    /\ \A t \in Titles(papers) : \E n \in Range(index.docs) : Owner(n) = t

\* the handlers that end without building or inserting
NothingIndexed ==
    call'.handler \in {"search_failed", "rebuild_failed", "add_paper_failed",
                       "add_paper_none", "add_paper_rejected"}

\* C29: a handler that runs configure_rag_system with the data source of the
\* RAGSystem keeps the memory, and the index too unless the handler itself
\* builds one; with another data source the memory is empty and the index is
\* gone.  The comprehensive query that follows a handler has the memory the
\* handler left as its history.
C29_ReconfigurationKeepsMemory ==
    [][ /\ call'.handler # "None" =>
              IF current_data_source' = current_data_source
              THEN /\ memory' = memory
                   /\ NothingIndexed =>
                         index' = index /\ query_engine' = query_engine
              ELSE /\ memory' = <<>>
                   /\ NothingIndexed =>
                         index' = NoIndex /\ query_engine' = "None"
        /\ (/\ call.handler # "None"
            /\ call'.query_type = "comprehensive"
            /\ call'.status \in {"ok", "CompletionFailure"}) =>
              call'.prompt.history = memory
      ]_vars

\* a handler has run on a RAGSystem that had two turns in its memory and an
\* index, and both are there
C29_Witness ==
    /\ call.handler \in {"add_paper_rejected", "search_failed"}
    /\ Len(memory) = 4
    /\ index.exists
    /\ index.docs # <<>>

\* C30: a comprehensive query whose completion fails leaves the memory as it
\* was, and the comprehensive query after it has that memory, without the
\* failed question, as its history.
C30_FailedTurnNotRecorded ==
    [][ /\ (/\ call'.status = "CompletionFailure"
            /\ call'.query_type = "comprehensive") =>
              /\ memory' = memory
              /\ call'.memory_before = memory
        /\ (/\ call.status = "CompletionFailure"
            /\ call.query_type = "comprehensive"
            /\ call'.query_type = "comprehensive"
            /\ call'.status \in {"ok", "CompletionFailure"}) =>
              /\ call'.prompt.history = call.memory_before
              /\ Len(memory') <= Len(call.memory_before) + 2
      ]_vars

\* a comprehensive query failed after a turn had been recorded, and the
\* memory holds that turn only
C30_Witness ==
    /\ call.status = "CompletionFailure"
    /\ call.query_type = "comprehensive"
    /\ call.completions = 1
    /\ Len(call.memory_before) = 2
    /\ memory = call.memory_before

====
